---- MODULE Spec2Model ----
(***************************************************************************)
(* Channel wiring of assemblerflow/generator/process.py: the Process,      *)
(* Compiler and Init classes.                                              *)
(*                                                                         *)
(* Python values are modelled as follows.  A str is the sequence of its    *)
(* characters (one-character strings), so that formatting, joining and     *)
(* sorting are computed and not assumed.  None is the one-element sequence *)
(* <<"None">>, which no str equals; an int n is <<"int", n>>.  A list is a *)
(* sequence and a dict is a function from its keys.                        *)
(***************************************************************************)
EXTENDS Integers, Sequences, FiniteSets, TLC

VARIABLES
    cls,              \* the class the object was constructed from
    template,         \* self.template
    pid,              \* self.pid
    lane,             \* self.lane
    input_channel,    \* self.input_channel
    output_channel,   \* self.output_channel
    status_channels,  \* self.status_channels
    status_strs,      \* self.status_strs
    forks,            \* self.forks
    main_forks,       \* self.main_forks
    params,           \* self.params
    context,          \* self._context
    hist              \* the calls made on the object so far, with their outcome

vars == <<cls, template, pid, lane, input_channel, output_channel,
          status_channels, status_strs, forks, main_forks, params, context, hist>>

(***************************************************************************)
(* Bounds of the model.                                                    *)
(***************************************************************************)
MaxOps == 4

\* calls made on the two stages together, in SpecPair
MaxPairOps == 3

\* set_main_channel_names calls on each stage, in SpecNames
MaxNamings == 1

\* calls made on the object, in SpecParams
MaxParamOps == 3

\* calls made on the two objects together, in SpecRuns
MaxRunOps == 4

\* calls made on the stage, in SpecRender
MaxRenderOps == 3

(***************************************************************************)
(* Python values.                                                          *)
(***************************************************************************)
None == <<"None">>

PyInt(n) == <<"int", n>>

IsInt(v) == Len(v) = 2 /\ v[1] = "int"

IsStr(v) == v # None /\ ~IsInt(v)

EmptyDict == [k \in {} |-> None]

\* a merge in which the keys already present keep their value
Merge_KeepOld(a, b) ==
    [k \in DOMAIN a \cup DOMAIN b |-> IF k \in DOMAIN a THEN a[k] ELSE b[k]]

\* {**a, **b}
Merge(a, b) ==
    [k \in DOMAIN a \cup DOMAIN b |-> IF k \in DOMAIN b THEN b[k] ELSE a[k]]

RECURSIVE Digits(_)
\* str(n) for a non-negative int
Digits(n) ==
    LET d == <<"0", "1", "2", "3", "4", "5", "6", "7", "8", "9">>[(n % 10) + 1]
    IN  IF n < 10 THEN <<d>> ELSE Digits(n \div 10) \o <<d>>

\* "{}".format(v)
Fmt(v) ==
    IF v = None THEN <<"N", "o", "n", "e">>
    ELSE IF IsInt(v) THEN Digits(v[2])
    ELSE v

RECURSIVE Join(_, _)
\* sep.join(lst), for a list of str
Join(sep, lst) ==
    IF lst = <<>> THEN <<>>
    ELSE IF Len(lst) = 1 THEN lst[1]
    ELSE lst[1] \o sep \o Join(sep, Tail(lst))

\* str.join raises TypeError unless every item is a str
CanJoin(lst) == \A i \in 1..Len(lst) : IsStr(lst[i])

\* the code point of a character, for the characters the model uses
Ord(c) ==
    CASE c = "0" -> 48 [] c = "1" -> 49 [] c = "2" -> 50 [] c = "3" -> 51
      [] c = "4" -> 52 [] c = "5" -> 53 [] c = "6" -> 54 [] c = "7" -> 55
      [] c = "8" -> 56 [] c = "9" -> 57
      [] c = "A" -> 65 [] c = "I" -> 73 [] c = "M" -> 77 [] c = "N" -> 78
      [] c = "S" -> 83 [] c = "T" -> 84 [] c = "U" -> 85
      [] c = "_" -> 95
      [] c = "a" -> 97 [] c = "b" -> 98 [] c = "c" -> 99 [] c = "e" -> 101
      [] c = "h" -> 104 [] c = "i" -> 105 [] c = "l" -> 108 [] c = "m" -> 109
      [] c = "n" -> 110 [] c = "o" -> 111 [] c = "s" -> 115 [] c = "t" -> 116
      [] c = "u" -> 117 [] c = "w" -> 119 [] c = "y" -> 121

RECURSIVE StrLess(_, _)
\* a < b for two str
StrLess(a, b) ==
    IF a = <<>> THEN b # <<>>
    ELSE IF b = <<>> THEN FALSE
    ELSE IF Ord(a[1]) < Ord(b[1]) THEN TRUE
    ELSE IF Ord(a[1]) > Ord(b[1]) THEN FALSE
    ELSE StrLess(Tail(a), Tail(b))

Range(s) == {s[i] : i \in 1..Len(s)}

RECURSIVE SortedList(_)
\* sorted(list(S)) for a set S of str
SortedList(S) ==
    IF S = {} THEN <<>>
    ELSE LET least == CHOOSE x \in S : \A y \in S \ {x} : StrLess(x, y)
         IN  <<least>> \o SortedList(S \ {least})

\* the list without its i-th item
Without(lst, i) == SubSeq(lst, 1, i - 1) \o SubSeq(lst, i + 1, Len(lst))

RECURSIVE Sorted(_)
\* sorted(lst) for a list of str: duplicates are kept
Sorted(lst) ==
    IF lst = <<>> THEN <<>>
    ELSE LET i == CHOOSE i \in 1..Len(lst) :
                      /\ \A j \in 1..Len(lst) : ~StrLess(lst[j], lst[i])
                      /\ \A j \in 1..(i - 1) : lst[j] # lst[i]
         IN  <<lst[i]>> \o Sorted(Without(lst, i))

(***************************************************************************)
(* The fork declaration "\n{}.{}{{ {} }}\n".format(source, op, sinks).     *)
(***************************************************************************)
OpSet == <<"s", "e", "t">>

OpInto == <<"i", "n", "t", "o">>

ForkStr(source, op, sinks) ==
    <<"\n">> \o Fmt(source) \o <<".">> \o op \o <<"{", " ">> \o sinks
        \o <<" ", "}", "\n">>

(***************************************************************************)
(* Inputs.                                                                 *)
(***************************************************************************)
Objs == {"p", "q"}

Classes == {"Process", "Compiler", "Init"}

Lanes == {1, 2}

\* suffixes "{lane}_{id}" handed to set_main_channel_names
Suffix(l, n) == Digits(l) \o <<"_">> \o Digits(n)

SinkNames ==
    { <<"c", "h", "e", "w", "b", "b", "a", "c", "a", "_", "i", "n", "_", "1", "_", "3">>,
      <<"m", "l", "s", "t", "_", "o", "u", "t", "_", "1", "_", "2">> }

SinkLists == {<<>>, <<<<"a">>, <<"a">>>>, <<<<"b">>, <<"a">>, <<"a">>>>}

Sources == {<<"M", "A", "I", "N", "_", "a", "s", "s", "e", "m", "b", "l", "y">>}

(***************************************************************************)
(* Construction: Process.__init__.                                         *)
(***************************************************************************)
\* status_channels as the constructors leave it (lines 202 and 623)
InitialStatusChannels(c, t) ==
    IF c = "Init" THEN <<>>
    ELSE << <<"S", "T", "A", "T", "U", "S", "_">> \o Fmt(t) >>

\* every object freshly constructed: c[o] its class, t[o] its template
Constructed(c, t) ==
    /\ cls = c
    /\ template = t
    /\ pid = [o \in Objs |-> None]
    /\ lane = [o \in Objs |-> None]
    /\ input_channel = [o \in Objs |-> None]
    /\ output_channel = [o \in Objs |-> None]
    /\ status_channels = [o \in Objs |-> InitialStatusChannels(c[o], t[o])]
    /\ status_strs = [o \in Objs |-> <<>>]
    /\ forks = [o \in Objs |-> <<>>]
    /\ main_forks = [o \in Objs |-> <<>>]
    /\ params = [o \in Objs |-> EmptyDict]
    /\ context = [o \in Objs |-> EmptyDict]
    /\ hist = [o \in Objs |-> <<>>]

Call(name, arguments, exc) == [op |-> name, args |-> arguments, raised |-> exc]

Record(o, name, arguments, exc) ==
    hist' = [hist EXCEPT ![o] = Append(@, Call(name, arguments, exc))]

CanCall(o) == Len(hist[o]) < MaxOps

(***************************************************************************)
(* Process.set_main_channel_names                                          *)
(***************************************************************************)
InputName(t, input_suffix) == Fmt(t) \o <<"_", "i", "n", "_">> \o Fmt(input_suffix)

\* the output channel named with the input infix
OutputName_AsInput(t, output_suffix) ==
    Fmt(t) \o <<"_", "i", "n", "_">> \o Fmt(output_suffix)

OutputName(t, output_suffix) ==
    Fmt(t) \o <<"_", "o", "u", "t", "_">> \o Fmt(output_suffix)

set_main_channel_names(o, input_suffix, output_suffix, ln) ==
    /\ CanCall(o)
    /\ input_channel' = [input_channel EXCEPT ![o] = InputName(template[o], input_suffix)]
    /\ output_channel' =
           [output_channel EXCEPT ![o] = OutputName(template[o], output_suffix)]
    /\ lane' = [lane EXCEPT ![o] = ln]
    /\ Record(o, "set_main_channel_names", <<input_suffix, output_suffix, ln>>, "none")
    /\ UNCHANGED <<cls, template, pid, status_channels, status_strs, forks,
                   main_forks, params, context>>

(***************************************************************************)
(* Process.set_channels                                                    *)
(***************************************************************************)
\* kwargs.get("pid")
KwargsPid(kwargs) == IF "pid" \in DOMAIN kwargs THEN kwargs["pid"] ELSE None

\* a test that finds every value falsy, so that the pid is computed anew
Falsy_Always(v) == TRUE

\* `not self.pid`: None and the empty str are falsy
Falsy(v) == v = None \/ v = <<>> \/ (IsInt(v) /\ v[2] = 0)

PidStr(ln, p) == Fmt(ln) \o <<"_">> \o Fmt(p)

StatusStrs(channels, p) ==
    [i \in 1..Len(channels) |-> Fmt(channels[i]) \o <<"_">> \o Fmt(p)]

\* the operator chosen from the number of sinks added, not from len(main_forks)
MainOperator_BySinksAdded(mf) == IF Len(mf) <= 2 THEN OpSet ELSE OpInto

\* "set" if len(self.main_forks) == 1 else "into"
MainOperator(mf) == IF Len(mf) = 1 THEN OpSet ELSE OpInto

\* the sinks sorted before they are joined
MainSinks_Sorted(mf) == Join(<<";">>, SortedList(Range(mf)))

\* ";".join(self.main_forks)
MainSinks(mf) == Join(<<";">>, mf)

MainForkStr(out, mf) == ForkStr(out, MainOperator(mf), MainSinks(mf))

set_channels(o, kwargs) ==
    LET newpid == IF Falsy(pid[o]) THEN PidStr(lane[o], KwargsPid(kwargs)) ELSE pid[o]
        strs   == status_strs[o] \o StatusStrs(status_channels[o], newpid)
        fails  == main_forks[o] # <<>> /\ ~CanJoin(main_forks[o])
        newforks == IF main_forks[o] # <<>>
                    THEN <<MainForkStr(output_channel[o], main_forks[o])>>
                    ELSE forks[o]
    IN  /\ CanCall(o)
        /\ pid' = [pid EXCEPT ![o] = newpid]
        /\ status_strs' = [status_strs EXCEPT ![o] = strs]
        /\ IF fails
           THEN /\ UNCHANGED <<forks, context>>
                /\ Record(o, "set_channels", <<kwargs>>, "TypeError")
           ELSE /\ forks' = [forks EXCEPT ![o] = newforks]
                /\ context' = [context EXCEPT ![o] =
                       Merge(kwargs,
                             [input_channel  |-> input_channel[o],
                              output_channel |-> output_channel[o],
                              template       |-> template[o],
                              forks          |-> Join(<<"\n">>, newforks),
                              pid            |-> newpid])]
                /\ Record(o, "set_channels", <<kwargs>>, "none")
        /\ UNCHANGED <<cls, template, lane, input_channel, output_channel,
                       status_channels, main_forks, params>>

(***************************************************************************)
(* Process.update_main_input                                               *)
(***************************************************************************)
update_main_input(o, input_str) ==
    /\ CanCall(o)
    /\ input_channel' = [input_channel EXCEPT ![o] = input_str]
    /\ context' = [context EXCEPT ![o] = Merge(@, [input_channel |-> input_str])]
    /\ Record(o, "update_main_input", <<input_str>>, "none")
    /\ UNCHANGED <<cls, template, pid, lane, output_channel, status_channels,
                   status_strs, forks, main_forks, params>>

(***************************************************************************)
(* Process.update_main_forks                                               *)
(***************************************************************************)
\* the original output channel recorded after the sink instead of before it
MainForksAfter_OutputLast(mf, out, sink) ==
    IF mf = <<>> THEN <<sink, out>> ELSE Append(mf, sink)

\* self.main_forks after lines 471-474
MainForksAfter(mf, out, sink) ==
    IF mf = <<>> THEN <<out, sink>> ELSE Append(mf, sink)

\* the output channel prefixed again on every call
OutputAfter_Always(mf, out) == <<"_">> \o Fmt(out)

\* self.output_channel after lines 471-473
OutputAfter(mf, out) == IF mf = <<>> THEN <<"_">> \o Fmt(out) ELSE out

update_main_forks(o, sink) ==
    LET mf  == MainForksAfter(main_forks[o], output_channel[o], sink)
        out == OutputAfter(main_forks[o], output_channel[o])
        newforks == <<MainForkStr(out, mf)>>
    IN  /\ CanCall(o)
        /\ main_forks' = [main_forks EXCEPT ![o] = mf]
        /\ output_channel' = [output_channel EXCEPT ![o] = out]
        /\ IF ~CanJoin(mf)
           THEN /\ UNCHANGED <<forks, context>>
                /\ Record(o, "update_main_forks", <<sink>>, "TypeError")
           ELSE /\ forks' = [forks EXCEPT ![o] = newforks]
                /\ context' = [context EXCEPT ![o] =
                       Merge(@, [forks          |-> Join(<<>>, newforks),
                                 output_channel |-> out])]
                /\ Record(o, "update_main_forks", <<sink>>, "none")
        /\ UNCHANGED <<cls, template, pid, lane, input_channel, status_channels,
                       status_strs, params>>

(***************************************************************************)
(* Process.set_secondary_channel                                           *)
(***************************************************************************)
\* the list taken as it is, without passing through a set
ListOfSet_KeepDuplicates(channel_list) == {channel_list}

\* list(set(channel_list)): every member once, in the iteration order of the
\* set, which for str depends on the hash seed of the run
ListOfSet(channel_list) ==
    LET S == Range(channel_list)
    IN  {l \in [1..Cardinality(S) -> S] : Range(l) = S}

\* the list left in the order the set was iterated in
CanonicalSinks_Unsorted(as_list) == as_list

\* sorted(as_list)
CanonicalSinks(as_list) == Sorted(as_list)

\* "set" if len(channel_list) == 1 else "into"
SecondaryOperator(sinks) == IF Len(sinks) = 1 THEN OpSet ELSE OpInto

SecondaryForkStr(source, p, as_list) ==
    LET sinks == CanonicalSinks(as_list)
    IN  ForkStr(Fmt(source) \o <<"_">> \o Fmt(p), SecondaryOperator(sinks),
                Join(<<";">>, sinks))

set_secondary_channel(o, source, channel_list) ==
    \E as_list \in ListOfSet(channel_list) :
        LET newforks == Append(forks[o], SecondaryForkStr(source, pid[o], as_list))
        IN  /\ CanCall(o)
            /\ forks' = [forks EXCEPT ![o] = newforks]
            /\ context' = [context EXCEPT ![o] =
                   Merge(@, [forks |-> Join(<<"\n">>, newforks)])]
            /\ Record(o, "set_secondary_channel", <<source, channel_list>>, "none")
            /\ UNCHANGED <<cls, template, pid, lane, input_channel, output_channel,
                           status_channels, status_strs, main_forks, params>>

(***************************************************************************)
(* Compiler.set_compiler_channels                                          *)
(***************************************************************************)
\* a guard that also rejects a single channel
NoChannels_OrOne(channel_list) == Len(channel_list) <= 1

\* `not channel_list`
NoChannels(channel_list) == channel_list = <<>>

\* the operator named as "merge"
CompileOperator_Merge == <<"m", "e", "r", "g", "e">>

\* the channel operator of line 607
CompileOperator == <<"m", "i", "x">>

\* the arguments taken from the whole list instead of channel_list[1:]
CompileArguments_All(channel_list) == Join(<<",">>, channel_list)

\* ",".join(channel_list[1:])
CompileArguments(channel_list) == Join(<<",">>, Tail(channel_list))

\* the value stored under "compile_channels", for a non-empty list
CompiledChannels(channel_list) ==
    IF Len(channel_list) = 1 THEN channel_list[1]
    ELSE Fmt(channel_list[1]) \o <<".">> \o CompileOperator \o <<"(">>
             \o Fmt(CompileArguments(channel_list)) \o <<")">>

set_compiler_channels(o, channel_list) ==
    /\ CanCall(o)
    /\ IF NoChannels(channel_list)
       THEN /\ UNCHANGED context
            /\ Record(o, "set_compiler_channels", <<channel_list>>, "ProcessError")
       ELSE /\ context' = [context EXCEPT ![o] =
                   [compile_channels |-> CompiledChannels(channel_list)]]
            /\ Record(o, "set_compiler_channels", <<channel_list>>, "none")
    /\ UNCHANGED <<cls, template, pid, lane, input_channel, output_channel,
                   status_channels, status_strs, forks, main_forks, params>>

(***************************************************************************)
(* Process.RAW_MAPPING (the keys the methods read).                        *)
(***************************************************************************)
RAW_fastq ==
    [ params |->
        <<"f", "a", "s", "t", "q">>,
      description |->
        <<"P", "a", "t", "h", " ", "e", "x", "p", "r", "e", "s", "s", "i", "o", "n",
          " ", "t", "o", " ", "p", "a", "i", "r", "e", "d", "-", "e", "n", "d", " ",
          "f", "a", "s", "t", "q", " ", "f", "i", "l", "e", "s", ".", " ", "(", "d",
          "e", "f", "a", "u", "l", "t", ":", " ", "$", "p", "a", "r", "a", "m", "s",
          ".", "f", "a", "s", "t", "q", ")">>,
      default_value |->
        <<"'", "f", "a", "s", "t", "q", "/", "*", "_", "{", "1", ",", "2", "}", ".",
          "*", "'">>,
      channel |->
        <<"I", "N", "_", "f", "a", "s", "t", "q", "_", "r", "a", "w">>,
      channel_str |->
        <<"C", "h", "a", "n", "n", "e", "l", ".", "f", "r", "o", "m", "F", "i", "l",
          "e", "P", "a", "i", "r", "s", "(", "p", "a", "r", "a", "m", "s", ".", "{",
          "0", "}", ")", ".", "i", "f", "E", "m", "p", "t", "y", " ", "{", "{", " ",
          "e", "x", "i", "t", " ", "1", ",", " ", "\"", "N", "o", " ", "f", "a", "s",
          "t", "q", " ", "f", "i", "l", "e", "s", " ", "p", "r", "o", "v", "i", "d",
          "e", "d", " ", "w", "i", "t", "h", " ", "p", "a", "t", "t", "e", "r", "n",
          ":", "'", "$", "{", "{", "p", "a", "r", "a", "m", "s", ".", "{", "0", "}",
          "}", "}", "'", "\"", " ", "}", "}">> ]

RAW_fasta ==
    [ params |->
        <<"f", "a", "s", "t", "a">>,
      description |->
        <<"P", "a", "t", "h", " ", "f", "a", "s", "t", "a", " ", "f", "i", "l", "e",
          "s", ".", " ", "(", "d", "e", "f", "a", "u", "l", "t", ":", " ", "$", "p",
          "a", "r", "a", "m", "s", ".", "f", "a", "s", "t", "q", ")">>,
      default_value |->
        <<"'", "f", "a", "s", "t", "a", "/", "*", ".", "f", "a", "s", "t", "a", "'">>,
      channel |->
        <<"I", "N", "_", "f", "a", "s", "t", "a", "_", "r", "a", "w">>,
      channel_str |->
        <<"C", "h", "a", "n", "n", "e", "l", ".", "f", "r", "o", "m", "P", "a", "t",
          "h", "(", "p", "a", "r", "a", "m", "s", ".", "{", "0", "}", ")", ".", "m",
          "a", "p", "{", "{", " ", "i", "t", " ", "-", ">", " ", "f", "i", "l", "e",
          "(", "i", "t", ")", ".", "e", "x", "i", "s", "t", "s", "(", ")", " ", "?",
          " ", "[", "i", "t", ".", "t", "o", "S", "t", "r", "i", "n", "g", "(", ")",
          ".", "t", "o", "k", "e", "n", "i", "z", "e", "(", "'", "/", "'", ")", ".",
          "l", "a", "s", "t", "(", ")", ".", "t", "o", "k", "e", "n", "i", "z", "e",
          "(", "'", ".", "'", ")", ".", "f", "i", "r", "s", "t", "(", ")", ",", " ",
          "i", "t", "]", " ", ":", " ", "n", "u", "l", "l", " ", "}", "}", ".", "i",
          "f", "E", "m", "p", "t", "y", " ", "{", "{", " ", "e", "x", "i", "t", " ",
          "1", ",", " ", "\"", "N", "o", " ", "f", "a", "s", "t", "a", " ", "f", "i",
          "l", "e", "s", " ", "p", "r", "o", "v", "i", "d", "e", "d", " ", "w", "i",
          "t", "h", " ", "p", "a", "t", "t", "e", "r", "n", ":", "'", "$", "{", "{",
          "p", "a", "r", "a", "m", "s", ".", "{", "0", "}", "}", "}", "'", "\"", " ",
          "}", "}">> ]

RAW_accessions ==
    [ params |->
        <<"a", "c", "c", "e", "s", "s", "i", "o", "n", "s">>,
      description |->
        <<"P", "a", "t", "h", " ", "f", "i", "l", "e", " ", "w", "i", "t", "h", " ",
          "a", "c", "c", "e", "s", "s", "i", "o", "n", "s", ",", " ", "o", "n", "e",
          " ", "p", "e", "r", "l", "i", "n", "e", ".", " ", "(", "d", "e", "f", "a",
          "u", "l", "t", ":", " ", "$", "p", "a", "r", "a", "m", "s", ".", "f", "a",
          "s", "t", "q", ")">>,
      default_value |->
        <<"n", "u", "l", "l">>,
      channel |->
        <<"I", "N", "_", "a", "c", "c", "e", "s", "s", "i", "o", "n", "s", "_", "r",
          "a", "w">>,
      channel_str |->
        <<"C", "h", "a", "n", "n", "e", "l", ".", "f", "r", "o", "m", "P", "a", "t",
          "h", "(", "p", "a", "r", "a", "m", "s", ".", "{", "0", "}", ")", ".", "i",
          "f", "E", "m", "p", "t", "y", " ", "{", "{", " ", "e", "x", "i", "t", " ",
          "1", ",", " ", "\"", "N", "o", " ", "a", "c", "c", "e", "s", "s", "i", "o",
          "n", "s", " ", "f", "i", "l", "e", " ", "p", "r", "o", "v", "i", "d", "e",
          "d", " ", "w", "i", "t", "h", " ", "p", "a", "t", "h", ":", "'", "$", "{",
          "{", "p", "a", "r", "a", "m", "s", ".", "{", "0", "}", "}", "}", "'", "\"",
          " ", "}", "}">> ]

RAW_MAPPING ==
    [t \in {RAW_fastq.params, RAW_fasta.params, RAW_accessions.params} |->
        IF t = RAW_fastq.params THEN RAW_fastq
        ELSE IF t = RAW_fasta.params THEN RAW_fasta
        ELSE RAW_accessions]

\* the index of the first brace of tmpl, or 0
FirstBrace(tmpl) ==
    LET braces == {i \in 1..Len(tmpl) : tmpl[i] \in {"{", "}"}}
    IN  IF braces = {} THEN 0
        ELSE CHOOSE i \in braces : \A j \in braces : i <= j

RECURSIVE Format0(_, _)
\* tmpl.format(arg) for a template whose only field is {0}: text up to the
\* next brace is copied, "{{" and "}}" give one brace, "{0}" gives arg
Format0(tmpl, arg) ==
    LET b == FirstBrace(tmpl)
        rest(n) == SubSeq(tmpl, b + n, Len(tmpl))
    IN  IF b = 0 THEN tmpl
        ELSE SubSeq(tmpl, 1, b - 1) \o
             (IF Len(tmpl) > b /\ tmpl[b + 1] = tmpl[b]
              THEN <<tmpl[b]>> \o Format0(rest(2), arg)
              ELSE Fmt(arg) \o Format0(rest(3), arg))

\* the params entry built from a RAW_MAPPING entry
ParamEntry(raw_channel) ==
    [default |-> raw_channel.default_value, description |-> raw_channel.description]

\* d[key] = value on a dict
DictSet(d, key, value) ==
    [k \in DOMAIN d \cup {key} |-> IF k = key THEN value ELSE d[k]]

(***************************************************************************)
(* Process.get_user_channel                                                *)
(***************************************************************************)
\* self.input_type as Process.__init__ and Init.__init__ leave it
SelfInputType(c) == None

\* input_type if input_type else self.input_type
ChosenType(input_type, self_type) ==
    IF Falsy(input_type) THEN self_type ELSE input_type

\* the parameter registered under the name of the raw channel
UserParamKey_Channel(channel_info) == channel_info.channel

\* channel_info["params"], the key get_user_channel registers under
UserParamKey(channel_info) == channel_info.params

\* the call recorded with the value it returned
Returned(o, name, arguments, value) ==
    hist' = [hist EXCEPT ![o] =
                Append(@, [op |-> name, args |-> arguments, raised |-> "none",
                           returned |-> value])]

get_user_channel(o, input_chan, input_type) ==
    LET res   == [input_channel |-> input_chan]
        itype == ChosenType(input_type, SelfInputType(cls[o]))
    IN  /\ CanCall(o)
        /\ IF itype \in DOMAIN RAW_MAPPING
           THEN LET channel_info == RAW_MAPPING[itype]
                IN  /\ params' = [params EXCEPT ![o] =
                           DictSet(@, UserParamKey(channel_info),
                                   ParamEntry(channel_info))]
                    /\ Returned(o, "get_user_channel", <<input_chan, input_type>>,
                                Merge(res, channel_info))
           ELSE /\ UNCHANGED params
                /\ Returned(o, "get_user_channel", <<input_chan, input_type>>, None)
        /\ UNCHANGED <<cls, template, pid, lane, input_channel, output_channel,
                       status_channels, status_strs, forks, main_forks, context>>

(***************************************************************************)
(* Init.set_raw_inputs.  raw_input is the dict in iteration order: a       *)
(* sequence of <<input_type, el>>.                                         *)
(***************************************************************************)
\* "set" if len(el["raw_forks"]) == 1 else "into"
RawOperator(raw_forks) == IF Len(raw_forks) = 1 THEN OpSet ELSE OpInto

\* the declaration with its sinks deduplicated and sorted
RawForkStr_Canonical(el) ==
    ForkStr(el.channel, RawOperator(el.raw_forks),
            Join(<<";">>, SortedList(Range(el.raw_forks))))

RawForkStr(el) ==
    ForkStr(el.channel, RawOperator(el.raw_forks), Join(<<";">>, el.raw_forks))

RECURSIVE RawInputsLoop(_, _)
\* the loop of lines 642-657 over the items left, from the state st
RawInputsLoop(items, st) ==
    IF items = <<>> THEN st
    ELSE LET input_type == items[1][1]
             el == items[1][2]
             primary == Append(st.primary_inputs, el.channel_str)
         IN  IF input_type \notin DOMAIN RAW_MAPPING
             THEN [st EXCEPT !.primary_inputs = primary, !.raised = "KeyError"]
             ELSE RawInputsLoop(Tail(items),
                      [st EXCEPT
                          !.primary_inputs = primary,
                          !.params = DictSet(@, input_type,
                                             ParamEntry(RAW_MAPPING[input_type])),
                          !.forks = Append(@, RawForkStr(el))])

set_raw_inputs(o, raw_input) ==
    LET end == RawInputsLoop(raw_input,
                   [primary_inputs |-> <<>>, params |-> params[o],
                    forks |-> forks[o], raised |-> "none"])
    IN  /\ CanCall(o)
        /\ params' = [params EXCEPT ![o] = end.params]
        /\ forks' = [forks EXCEPT ![o] = end.forks]
        /\ IF end.raised = "none"
           THEN context' = [context EXCEPT ![o] =
                    Merge(@, [forks |-> Join(<<"\n">>, end.forks),
                              main_inputs |-> Join(<<"\n">>, end.primary_inputs)])]
           ELSE UNCHANGED context
        /\ Record(o, "set_raw_inputs", <<raw_input>>, end.raised)
        /\ UNCHANGED <<cls, template, pid, lane, input_channel, output_channel,
                       status_channels, status_strs, main_forks>>

(***************************************************************************)
(* Init.set_extra_inputs.  channel_dict is the dict in iteration order: a  *)
(* sequence of <<param, info>>.                                            *)
(***************************************************************************)
\* one channel name shared by every parameter
ExtraChannelName_Shared(param) ==
    <<"I", "N", "_", "e", "x", "t", "r", "a", "I", "n", "p", "u", "t">>

\* "IN_{}_extraInput".format(param)
ExtraChannelName(param) ==
    <<"I", "N", "_">> \o Fmt(param)
        \o <<"_", "e", "x", "t", "r", "a", "I", "n", "p", "u", "t">>

\* the operator chosen as if there were always several sinks
ExtraOperator_AlwaysInto(channels) == OpInto

\* "set" if len(info["channels"]) == 1 else "into"
ExtraOperator(channels) == IF Len(channels) = 1 THEN OpSet ELSE OpInto

\* "{}.{}{{ {} }}".format(channel_name, op, ";".join(info["channels"]))
ExtraForkStr(param, channels) ==
    ExtraChannelName(param) \o <<".">> \o ExtraOperator(channels) \o <<"{", " ">>
        \o Join(<<";">>, channels) \o <<" ", "}">>

\* "{} = {}".format(channel_name, channel_str.format(param))
ExtraChannelStr(param, input_type) ==
    ExtraChannelName(param) \o <<" ", "=", " ">>
        \o Format0(RAW_MAPPING[input_type].channel_str, param)

RECURSIVE ExtraInputsLoop(_, _)
\* the loop of lines 695-711 over the items left, from the state st
ExtraInputsLoop(items, st) ==
    IF items = <<>> THEN st
    ELSE LET param == items[1][1]
             info == items[1][2]
         IN  IF info.input_type \notin DOMAIN RAW_MAPPING
             THEN [st EXCEPT !.raised = "KeyError"]
             ELSE ExtraInputsLoop(Tail(items),
                      [st EXCEPT
                          !.params = DictSet(@, param,
                                             ParamEntry(RAW_MAPPING[info.input_type])),
                          !.extra_inputs =
                              @ \o <<ExtraChannelStr(param, info.input_type),
                                     ExtraForkStr(param, info.channels)>>])

set_extra_inputs(o, channel_dict) ==
    LET end == ExtraInputsLoop(channel_dict,
                   [extra_inputs |-> <<>>, params |-> params[o], raised |-> "none"])
    IN  /\ CanCall(o)
        /\ params' = [params EXCEPT ![o] = end.params]
        /\ IF end.raised = "none"
           THEN context' = [context EXCEPT ![o] =
                    Merge(@, [extra_inputs |-> Join(<<"\n">>, end.extra_inputs)])]
           ELSE UNCHANGED context
        /\ Record(o, "set_extra_inputs", <<channel_dict>>, end.raised)
        /\ UNCHANGED <<cls, template, pid, lane, input_channel, output_channel,
                       status_channels, status_strs, forks, main_forks>>

(***************************************************************************)
(* Inputs of the calls.                                                    *)
(***************************************************************************)
StageTemplate == <<"m", "l", "s", "t">>

InitTemplate == <<"i", "n", "i", "t">>

CompilerTemplate == <<"s", "t", "a", "t", "u", "s", "_", "c", "o", "m", "p", "i", "l", "e", "r">>

\* the template each class is constructed with
TemplateOf(c) ==
    IF c = "Init" THEN InitTemplate
    ELSE IF c = "Compiler" THEN CompilerTemplate
    ELSE StageTemplate

S1 == <<"S", "1">>

S2 == <<"S", "2">>

S3 == <<"S", "3">>

StatusLists == {<<>>, <<S1>>, <<S2, S1>>, <<S1, S2, S3>>, <<S3, S1, S3>>}

\* a raw_input item as the graph builder assembles it from RAW_MAPPING
RawItem(input_type, raw_forks) ==
    <<input_type,
      [channel_str |-> RAW_MAPPING[input_type].channel \o <<" ", "=", " ">>
                           \o Format0(RAW_MAPPING[input_type].channel_str,
                                      RAW_MAPPING[input_type].params),
       channel |-> RAW_MAPPING[input_type].channel,
       raw_forks |-> raw_forks]>>

UnknownType == <<"r", "a", "w">>

UnknownItem ==
    <<UnknownType,
      [channel_str |-> <<"I", "N", "_", "r", "a", "w">>,
       channel |-> <<"I", "N", "_", "r", "a", "w">>,
       raw_forks |-> <<<<"a">>>>]>>

FastqcIn == <<"f", "a", "s", "t", "q", "c", "_", "i", "n", "_", "1", "_", "1">>

RawInputs ==
    { <<RawItem(RAW_fastq.params, <<FastqcIn>>)>>,
      <<RawItem(RAW_fastq.params, <<<<"b">>, <<"a">>>>),
        RawItem(RAW_fasta.params, <<<<"a">>>>)>>,
      <<RawItem(RAW_accessions.params, <<<<"a">>>>), UnknownItem>> }

ExtraItem(param, input_type, channels) ==
    <<param, [input_type |-> input_type, channels |-> channels]>>

ExtraInputs ==
    { <<ExtraItem(<<"x">>, RAW_fasta.params, <<<<"a">>, <<"a">>>>)>>,
      <<ExtraItem(<<"x">>, RAW_fasta.params, <<<<"b">>, <<"a">>>>),
        ExtraItem(<<"y">>, RAW_fasta.params, <<<<"a">>>>)>>,
      <<ExtraItem(<<"x">>, RAW_accessions.params, <<<<"b">>>>),
        ExtraItem(<<"y">>, UnknownType, <<<<"a">>>>)>> }

(***************************************************************************)
(* One object, of any of the three classes, driven through its calls.  The *)
(* graph builder names and forks stages (Process); Init and Compiler       *)
(* objects receive set_channels and the methods of their own class.        *)
(***************************************************************************)
Init ==
    \E c \in Classes :
        Constructed([o \in Objs |-> c], [o \in Objs |-> TemplateOf(c)])

SetMainChannelNames ==
    /\ cls["p"] = "Process"
    /\ \E l \in Lanes :
           set_main_channel_names("p", Suffix(l, 1), Suffix(l, 2), PyInt(l))

\* the keyword arguments of set_channels: none, or the position of the stage
Kwargs == {EmptyDict, [pid |-> PyInt(1)], [pid |-> PyInt(2)]}

SetChannels ==
    \E kwargs \in Kwargs : set_channels("p", kwargs)

UpdateMainInput ==
    /\ cls["p"] = "Process"
    /\ \E s \in {<<"_", "m", "l", "s", "t", "_", "i", "n", "_", "1", "_", "1">>} :
           update_main_input("p", s)

UpdateMainForks ==
    /\ cls["p"] = "Process"
    /\ \E sink \in SinkNames : update_main_forks("p", sink)

SetSecondaryChannel ==
    /\ cls["p"] = "Process"
    /\ \E source \in Sources, lst \in SinkLists :
           set_secondary_channel("p", source, lst)

SetCompilerChannels ==
    /\ cls["p"] = "Compiler"
    /\ \E lst \in StatusLists : set_compiler_channels("p", lst)

SetRawInputs ==
    /\ cls["p"] = "Init"
    /\ \E raw_input \in RawInputs : set_raw_inputs("p", raw_input)

SetExtraInputs ==
    /\ cls["p"] = "Init"
    /\ \E channel_dict \in ExtraInputs : set_extra_inputs("p", channel_dict)

Next ==
    \/ SetMainChannelNames
    \/ SetChannels
    \/ UpdateMainInput
    \/ UpdateMainForks
    \/ SetSecondaryChannel
    \/ SetCompilerChannels
    \/ SetRawInputs
    \/ SetExtraInputs

Spec == Init /\ [][Next]_vars

(***************************************************************************)
(* Two stages of the same template, each given set_channels and            *)
(* set_secondary_channel calls.                                            *)
(***************************************************************************)
PairSinkLists ==
    { <<>>, <<<<"a">>>>, <<<<"b">>>>, <<<<"a">>, <<"a">>>>, <<<<"a">>, <<"b">>>>,
      <<<<"b">>, <<"a">>>>, <<<<"b">>, <<"a">>, <<"a">>>> }

PairInit ==
    Constructed([o \in Objs |-> "Process"], [o \in Objs |-> StageTemplate])

PairCanCall == Len(hist["p"]) + Len(hist["q"]) < MaxPairOps

PairSetChannels ==
    /\ PairCanCall
    /\ \E o \in Objs : set_channels(o, [pid |-> PyInt(1)])

PairSetSecondaryChannel ==
    /\ PairCanCall
    /\ \E o \in Objs, source \in Sources, lst \in PairSinkLists :
           set_secondary_channel(o, source, lst)

PairNext == PairSetChannels \/ PairSetSecondaryChannel

SpecPair == PairInit /\ [][PairNext]_vars

(***************************************************************************)
(* Two stages, of any two templates, given their main channel names.  The  *)
(* graph builder hands set_main_channel_names suffixes "{lane}_{id}".      *)
(***************************************************************************)
Templates ==
    { <<"a">>, <<"a", "_", "i", "n", "_", "1">>, <<"a", "_", "o", "u", "t", "_", "1">> }

LaneIds == {<<1, 1>>, <<1, 11>>, <<11, 1>>}

NamesInit ==
    \E t \in [Objs -> Templates] : Constructed([o \in Objs |-> "Process"], t)

NamesSetMainChannelNames ==
    \E o \in Objs, i \in LaneIds, j \in LaneIds :
        /\ Len(hist[o]) < MaxNamings
        /\ set_main_channel_names(o, Suffix(i[1], i[2]), Suffix(j[1], j[2]),
                                  PyInt(i[1]))

NamesNext == NamesSetMainChannelNames

SpecNames == NamesInit /\ [][NamesNext]_vars

(***************************************************************************)
(* One object, a stage or the Init object, whose raw input parameters are  *)
(* registered by get_user_channel and (Init only) by set_raw_inputs.       *)
(***************************************************************************)
ParamClasses == {"Process", "Init"}

\* the input_type argument: left out, a raw type, or a type RAW_MAPPING lacks
TypeArgs == {None, RAW_fastq.params, UnknownType}

ParamsInit ==
    \E c \in ParamClasses :
        Constructed([o \in Objs |-> c], [o \in Objs |-> TemplateOf(c)])

ParamsCanCall == Len(hist["p"]) < MaxParamOps

ParamsGetUserChannel ==
    /\ ParamsCanCall
    /\ \E input_type \in TypeArgs : get_user_channel("p", FastqcIn, input_type)

ParamsSetRawInputs ==
    /\ ParamsCanCall
    /\ cls["p"] = "Init"
    /\ \E raw_input \in RawInputs : set_raw_inputs("p", raw_input)

ParamsNext == ParamsGetUserChannel \/ ParamsSetRawInputs

SpecParams == ParamsInit /\ [][ParamsNext]_vars

(***************************************************************************)
(* Two objects of one class, constructed alike, each driven through the    *)
(* calls of its class.                                                     *)
(***************************************************************************)
RunSinkLists == {<<<<"a">>>>, <<<<"b">>, <<"a">>>>}

RunStatusLists == {<<S1>>, <<S2, S1>>}

RunsInit ==
    \E c \in Classes :
        Constructed([o \in Objs |-> c], [o \in Objs |-> TemplateOf(c)])

RunsCanCall == Len(hist["p"]) + Len(hist["q"]) < MaxRunOps

RunsSetMainChannelNames ==
    /\ RunsCanCall
    /\ \E o \in Objs :
           /\ cls[o] = "Process"
           /\ set_main_channel_names(o, Suffix(1, 1), Suffix(1, 2), PyInt(1))

RunsSetChannels ==
    /\ RunsCanCall
    /\ \E o \in Objs : set_channels(o, [pid |-> PyInt(1)])

RunsUpdateMainForks ==
    /\ RunsCanCall
    /\ \E o \in Objs, sink \in SinkNames :
           /\ cls[o] = "Process"
           /\ update_main_forks(o, sink)

RunsSetSecondaryChannel ==
    /\ RunsCanCall
    /\ \E o \in Objs, source \in Sources, lst \in RunSinkLists :
           /\ cls[o] = "Process"
           /\ set_secondary_channel(o, source, lst)

RunsSetCompilerChannels ==
    /\ RunsCanCall
    /\ \E o \in Objs, lst \in RunStatusLists :
           /\ cls[o] = "Compiler"
           /\ set_compiler_channels(o, lst)

RunsSetRawInputs ==
    /\ RunsCanCall
    /\ \E o \in Objs, raw_input \in RawInputs :
           /\ cls[o] = "Init"
           /\ set_raw_inputs(o, raw_input)

RunsNext ==
    \/ RunsSetMainChannelNames
    \/ RunsSetChannels
    \/ RunsUpdateMainForks
    \/ RunsSetSecondaryChannel
    \/ RunsSetCompilerChannels
    \/ RunsSetRawInputs

SpecRuns == RunsInit /\ [][RunsNext]_vars

(***************************************************************************)
(* Process.template_str.  The property reads self._context; the rendering  *)
(* itself is done by jinja2 from the template file and the context, and    *)
(* the call is recorded with the context it handed to render.              *)
(***************************************************************************)
\* `not self._context`: the empty dict is falsy
NoContext(ctx) == DOMAIN ctx = {}

template_str(o) ==
    /\ CanCall(o)
    /\ IF NoContext(context[o])
       THEN Record(o, "template_str", <<>>, "ProcessError")
       ELSE Returned(o, "template_str", <<>>, context[o])
    /\ UNCHANGED <<cls, template, pid, lane, input_channel, output_channel,
                   status_channels, status_strs, forks, main_forks, params, context>>

(***************************************************************************)
(* One stage, named, wired and set up in any order, whose template_str is  *)
(* read at any point.                                                      *)
(***************************************************************************)
RenderInit ==
    Constructed([o \in Objs |-> "Process"], [o \in Objs |-> StageTemplate])

RenderCanCall == Len(hist["p"]) < MaxRenderOps

RenderSetMainChannelNames ==
    /\ RenderCanCall
    /\ set_main_channel_names("p", Suffix(1, 1), Suffix(1, 2), PyInt(1))

RenderSetChannels ==
    /\ RenderCanCall
    /\ set_channels("p", [pid |-> PyInt(1)])

RenderUpdateMainInput ==
    /\ RenderCanCall
    /\ update_main_input("p", FastqcIn)

RenderUpdateMainForks ==
    /\ RenderCanCall
    /\ \E sink \in SinkNames : update_main_forks("p", sink)

RenderSetSecondaryChannel ==
    /\ RenderCanCall
    /\ \E source \in Sources, lst \in RunSinkLists :
           set_secondary_channel("p", source, lst)

RenderTemplateStr ==
    /\ RenderCanCall
    /\ template_str("p")

RenderNext ==
    \/ RenderSetMainChannelNames
    \/ RenderSetChannels
    \/ RenderUpdateMainInput
    \/ RenderUpdateMainForks
    \/ RenderSetSecondaryChannel
    \/ RenderTemplateStr

SpecRender == RenderInit /\ [][RenderNext]_vars

(***************************************************************************)
(* Reading a declaration back: "\n<source>.<operator>{ <sinks> }\n" or the *)
(* same text without the surrounding newlines.                             *)
(***************************************************************************)
Last(s) == s[Len(s)]

Pos(s, c) == CHOOSE i \in 1..Len(s) : s[i] = c /\ \A j \in 1..(i - 1) : s[j] # c

Strip(d) ==
    LET a == IF d # <<>> /\ d[1] = "\n" THEN Tail(d) ELSE d
    IN  IF a # <<>> /\ Last(a) = "\n" THEN SubSeq(a, 1, Len(a) - 1) ELSE a

DeclSource(d) == SubSeq(Strip(d), 1, Pos(Strip(d), ".") - 1)

DeclOp(d) == SubSeq(Strip(d), Pos(Strip(d), ".") + 1, Pos(Strip(d), "{") - 1)

DeclBody(d) == SubSeq(Strip(d), Pos(Strip(d), "{") + 2, Len(Strip(d)) - 2)

RECURSIVE Split(_, _)
Split(s, c) ==
    IF c \notin Range(s) THEN <<s>>
    ELSE <<SubSeq(s, 1, Pos(s, c) - 1)>> \o Split(SubSeq(s, Pos(s, c) + 1, Len(s)), c)

DeclSinks(d) == IF DeclBody(d) = <<>> THEN <<>> ELSE Split(DeclBody(d), ";")

WordSet == <<"s", "e", "t">>

WordInto == <<"i", "n", "t", "o">>

IsSorted(l) == \A i \in 1..(Len(l) - 1) : l[i] = l[i + 1] \/ StrLess(l[i], l[i + 1])

StrictlySorted(l) == \A i \in 1..(Len(l) - 1) : StrLess(l[i], l[i + 1])

(***************************************************************************)
(* Reading the call history.                                               *)
(***************************************************************************)
CallsOf(o, name) == SelectSeq(hist[o], LAMBDA c : c.op = name)

NumCalls(o, name) == Len(CallsOf(o, name))

\* this step is a call of `name` on o
Stepped(o, name) ==
    /\ Len(hist'[o]) = Len(hist[o]) + 1
    /\ Last(hist'[o]).op = name

\* the sinks handed to update_main_forks so far, in call order
SinksAdded(o) ==
    LET c == CallsOf(o, "update_main_forks") IN [i \in 1..Len(c) |-> c[i].args[1]]

\* update_main_forks was called, and the first call found an output channel
MainForked(o) ==
    /\ NumCalls(o, "update_main_forks") >= 1
    /\ CallsOf(o, "update_main_forks")[1].raised = "none"

(***************************************************************************)
(* C1 (as amended): the first update_main_forks call on a stage whose      *)
(* output channel is X, with sink S, renames the output channel to "_X"    *)
(* and leaves the stage with the single declaration "_X.into{ X;S }".      *)
(***************************************************************************)
FirstMainFork(declared_op, declared_sinks(_, _)) ==
    (/\ Stepped("p", "update_main_forks")
     /\ NumCalls("p", "update_main_forks") = 0
     /\ IsStr(output_channel["p"]))
    => LET X == output_channel["p"]
           S == Last(hist'["p"]).args[1]
       IN  /\ output_channel'["p"] = <<"_">> \o X
           /\ Len(forks'["p"]) = 1
           /\ DeclSource(forks'["p"][1]) = <<"_">> \o X
           /\ DeclOp(forks'["p"][1]) = declared_op
           /\ DeclSinks(forks'["p"][1]) = declared_sinks(X, S)

\* C1 (amended): the first update_main_forks call renames X to "_X" and leaves
\* the single declaration "_X.into{ X;S }"
C1_FirstForkIsInto == [][FirstMainFork(WordInto, LAMBDA X, S : <<X, S>>)]_vars

\* C1 as stated: the single declaration is "_X.set{ S }"
C1_FirstForkIsSet == [][FirstMainFork(WordSet, LAMBDA X, S : <<S>>)]_vars

\* C1: update_main_forks called once on "mlst_out_1_2" with sink "chewbbaca_in_1_3"
C1_Witness ==
    /\ NumCalls("p", "update_main_forks") = 1
    /\ Last(hist["p"]) = Call("update_main_forks", <<<<"c", "h", "e", "w", "b", "b", "a", "c", "a", "_", "i", "n", "_", "1", "_", "3">>>>, "none")
    /\ output_channel["p"] = <<"_", "m", "l", "s", "t", "_", "o", "u", "t", "_", "1", "_", "2">>
    /\ forks["p"] = <<<<"\n", "_", "m", "l", "s", "t", "_", "o", "u", "t", "_", "1", "_", "2", ".", "i", "n", "t", "o", "{", " ", "m", "l", "s", "t", "_", "o", "u", "t", "_", "1", "_", "2", ";", "c", "h", "e", "w", "b", "b", "a", "c", "a", "_", "i", "n", "_", "1", "_", "3", " ", "}", "\n">>>>

(***************************************************************************)
(* C2 (as amended): after two or more update_main_forks calls on a stage   *)
(* with an output channel, the main declaration uses `into` and lists,     *)
(* after the original output channel, the sinks in the order they were     *)
(* added.                                                                  *)
(***************************************************************************)
\* C2 (amended): after two or more calls the main declaration uses `into` and
\* lists the sinks, after the original output channel, in the order added
C2_SinksInInsertionOrder ==
    (MainForked("p") /\ NumCalls("p", "update_main_forks") >= 2)
    => /\ DeclOp(forks["p"][1]) = WordInto
       /\ Len(DeclSinks(forks["p"][1])) = NumCalls("p", "update_main_forks") + 1
       /\ Tail(DeclSinks(forks["p"][1])) = SinksAdded("p")

\* C2 as stated: `into`, with the sinks in lexicographic order
C2_SinksSorted ==
    (MainForked("p") /\ NumCalls("p", "update_main_forks") >= 2)
    => /\ DeclOp(forks["p"][1]) = WordInto
       /\ IsSorted(DeclSinks(forks["p"][1]))

\* C2: the second call added "mlst_out_1_2"; the sinks are not in sorted order
C2_Witness ==
    /\ NumCalls("p", "update_main_forks") = 2
    /\ forks["p"] = <<<<"\n", "_", "m", "l", "s", "t", "_", "o", "u", "t", "_", "1", "_", "2", ".", "i", "n", "t", "o", "{", " ", "m", "l", "s", "t", "_", "o", "u", "t", "_", "1", "_", "2", ";", "c", "h", "e", "w", "b", "b", "a", "c", "a", "_", "i", "n", "_", "1", "_", "3", ";", "m", "l", "s", "t", "_", "o", "u", "t", "_", "1", "_", "2", " ", "}", "\n">>>>

(***************************************************************************)
(* C3 (as amended): once update_main_forks has been called on a stage with *)
(* an output channel, the original (unprefixed) output channel name is the *)
(* first element of the sink list of the main declaration, in that state   *)
(* and in every later one.                                                 *)
(***************************************************************************)
OriginalOutputAt(place(_)) ==
    /\ (/\ Stepped("p", "update_main_forks")
        /\ NumCalls("p", "update_main_forks") = 0
        /\ IsStr(output_channel["p"]))
       => place(DeclSinks(forks'["p"][1])) = output_channel["p"]
    /\ MainForked("p")
       => place(DeclSinks(forks'["p"][1])) = place(DeclSinks(forks["p"][1]))

\* C3 (amended): the original output channel name is, and stays, the first sink
\* of the main declaration
C3_OriginalOutputFirst == [][OriginalOutputAt(Head)]_vars

\* C3 as stated: the original name is the final element
C3_OriginalOutputLast == [][OriginalOutputAt(Last)]_vars

\* C3: two sinks added and the declaration rendered again by set_channels
C3_Witness ==
    /\ MainForked("p")
    /\ NumCalls("p", "update_main_forks") = 2
    /\ Last(hist["p"]).op = "set_channels"
    /\ Head(DeclSinks(forks["p"][1])) = <<"m", "l", "s", "t", "_", "o", "u", "t", "_", "1", "_", "2">>
    /\ Last(DeclSinks(forks["p"][1])) # <<"m", "l", "s", "t", "_", "o", "u", "t", "_", "1", "_", "2">>

(***************************************************************************)
(* C5: the declarations appended by set_secondary_channel stay in forks,   *)
(* in the same relative order, after every later operation on the stage.   *)
(***************************************************************************)
IsPrefix(a, b) == Len(a) <= Len(b) /\ SubSeq(b, 1, Len(a)) = a

StartsWith(s, prefix) == IsPrefix(prefix, s)

\* the declarations whose source is a secondary channel
SecondaryDecls(f) ==
    SelectSeq(f, LAMBDA d : \E src \in Sources : StartsWith(DeclSource(d), src))

\* C5: no step removes or reorders a declaration set_secondary_channel appended
C5_SecondaryForksKept ==
    [][IsPrefix(SecondaryDecls(forks["p"]), SecondaryDecls(forks'["p"]))]_vars

(***************************************************************************)
(* C4: set_secondary_channel depends only on the set of sinks.  Each call  *)
(* appends exactly one declaration, whose sink list is the deduplicated    *)
(* sinks in lexicographic order; two stages with the same calls before,    *)
(* given lists with the same elements, end with identical declarations.    *)
(***************************************************************************)
LastIs(o, name) == hist[o] # <<>> /\ Last(hist[o]).op = name

Front(s) == SubSeq(s, 1, Len(s) - 1)

\* C4: one declaration per call, its sinks deduplicated and sorted; equal sink
\* sets on stages with equal histories give equal forks
C4_SinkSetDecides ==
    /\ \A o \in Objs :
           LastIs(o, "set_secondary_channel")
           => /\ Len(forks[o]) = NumCalls(o, "set_secondary_channel")
              /\ StrictlySorted(DeclSinks(Last(forks[o])))
              /\ Range(DeclSinks(Last(forks[o]))) = Range(Last(hist[o]).args[2])
    /\ (/\ LastIs("p", "set_secondary_channel")
        /\ LastIs("q", "set_secondary_channel")
        /\ Front(hist["p"]) = Front(hist["q"])
        /\ Last(hist["p"]).args[1] = Last(hist["q"]).args[1]
        /\ Range(Last(hist["p"]).args[2]) = Range(Last(hist["q"]).args[2]))
       => forks["p"] = forks["q"]

\* C4: [b, a, a] on one fresh stage and [a, b] on the other
C4_Witness ==
    /\ hist["p"] = <<Call("set_secondary_channel",
                          <<<<"M", "A", "I", "N", "_", "a", "s", "s", "e", "m", "b", "l", "y">>,
                            <<<<"b">>, <<"a">>, <<"a">>>>>>, "none")>>
    /\ hist["q"] = <<Call("set_secondary_channel",
                          <<<<"M", "A", "I", "N", "_", "a", "s", "s", "e", "m", "b", "l", "y">>,
                            <<<<"a">>, <<"b">>>>>>, "none")>>
    /\ forks["p"] = <<<<"\n", "M", "A", "I", "N", "_", "a", "s", "s", "e", "m", "b", "l", "y", "_", "N", "o", "n", "e", ".", "i", "n", "t", "o", "{", " ", "a", ";", "b", " ", "}", "\n">>>>
    /\ forks["q"] = forks["p"]

(***************************************************************************)
(* C6: every fan-out declaration emitted by update_main_forks,             *)
(* set_channels, set_secondary_channel, set_raw_inputs (all in forks) and  *)
(* set_extra_inputs (every second line of the "extra_inputs" context       *)
(* value) uses `set` when its sink list has one element and `into` when it *)
(* has two or more.                                                        *)
(***************************************************************************)
OperatorFitsSinks(d) ==
    /\ Len(DeclSinks(d)) = 1 => DeclOp(d) = WordSet
    /\ Len(DeclSinks(d)) >= 2 => DeclOp(d) = WordInto

\* the declarations among the lines set_extra_inputs joined
ExtraDecls(o) ==
    IF "extra_inputs" \notin DOMAIN context[o] \/ context[o]["extra_inputs"] = <<>>
    THEN <<>>
    ELSE LET lines == Split(context[o]["extra_inputs"], "\n")
         IN  [i \in 1..(Len(lines) \div 2) |-> lines[2 * i]]

\* C6: `set` for one emitted sink, `into` for two or more, in every declaration
C6_OperatorFollowsSinkCount ==
    /\ \A i \in 1..Len(forks["p"]) : OperatorFitsSinks(forks["p"][i])
    /\ \A i \in 1..Len(ExtraDecls("p")) : OperatorFitsSinks(ExtraDecls("p")[i])

\* C6: an Init object holding `set` and `into` declarations from set_raw_inputs
\* and from set_extra_inputs
C6_Witness ==
    /\ \E i, j \in 1..Len(forks["p"]) :
           /\ DeclOp(forks["p"][i]) = WordSet
           /\ DeclOp(forks["p"][j]) = WordInto
           /\ Len(DeclSinks(forks["p"][j])) = 2
    /\ \E i, j \in 1..Len(ExtraDecls("p")) :
           /\ DeclOp(ExtraDecls("p")[i]) = WordSet
           /\ DeclOp(ExtraDecls("p")[j]) = WordInto

CompiledLeft(e) == SubSeq(e, 1, Pos(e, ".") - 1)

CompiledOp(e) == SubSeq(e, Pos(e, ".") + 1, Pos(e, "(") - 1)

CompiledArgs(e) == Split(SubSeq(e, Pos(e, "(") + 1, Len(e) - 1), ",")

CompiledWith(operator_name, example) ==
    (LastIs("p", "set_compiler_channels") /\ Len(Last(hist["p"]).args[1]) >= 2)
    => /\ CompiledOp(context["p"]["compile_channels"]) = operator_name
       /\ Last(hist["p"]).args[1] = <<S1, S2, S3>>
          => context["p"]["compile_channels"] = example

\* C8 (amended): the operator for two or more channels is `mix`, and
\* ["S1","S2","S3"] compiles to "S1.mix(S2,S3)"
C8_CompiledWithMix ==
    CompiledWith(<<"m", "i", "x">>,
                 <<"S", "1", ".", "m", "i", "x", "(", "S", "2", ",", "S", "3", ")">>)

\* C8 as stated: the operator is `merge`
C8_CompiledWithMerge ==
    CompiledWith(<<"m", "e", "r", "g", "e">>,
                 <<"S", "1", ".", "m", "e", "r", "g", "e", "(", "S", "2", ",", "S", "3", ")">>)

\* C8: ["S1","S2","S3"] compiled
C8_Witness ==
    /\ LastIs("p", "set_compiler_channels")
    /\ Last(hist["p"]) = Call("set_compiler_channels", <<<<S1, S2, S3>>>>, "none")
    /\ context["p"] = [compile_channels |->
                           <<"S", "1", ".", "m", "i", "x", "(", "S", "2", ",", "S", "3", ")">>]

(***************************************************************************)
(* C9: set_compiler_channels keeps the input order.  One name compiles to  *)
(* itself; of several, the first is the left operand and the others are    *)
(* the operator's arguments, in input order, each once.                    *)
(***************************************************************************)
\* C9: one name compiles to itself; of several the first is the left operand and
\* the rest are the arguments in input order
C9_InputOrderKept ==
    (LastIs("p", "set_compiler_channels") /\ Last(hist["p"]).raised = "none")
    => LET lst == Last(hist["p"]).args[1]
           e == context["p"]["compile_channels"]
       IN  IF Len(lst) = 1 THEN e = lst[1]
           ELSE /\ CompiledLeft(e) = lst[1]
                /\ CompiledArgs(e) = Tail(lst)
                /\ Last(e) = ")"

\* C9: ["S1"] and then ["S3","S1","S3"] compiled
C9_Witness ==
    /\ Len(hist["p"]) = 2
    /\ hist["p"][1] = Call("set_compiler_channels", <<<<S1>>>>, "none")
    /\ hist["p"][2] = Call("set_compiler_channels", <<<<S3, S1, S3>>>>, "none")
    /\ CompiledLeft(context["p"]["compile_channels"]) = S3
    /\ CompiledArgs(context["p"]["compile_channels"]) = <<S1, S3>>

(***************************************************************************)
(* C10: the names set_main_channel_names assigns do not collide.  Two      *)
(* stages that differ in template or input suffix have different input     *)
(* channels, two that differ in template or output suffix have different   *)
(* output channels, and no input channel equals an output channel.         *)
(***************************************************************************)
Named(o) == LastIs(o, "set_main_channel_names")

\* C10: distinct (template, suffix) pairs give distinct input names and distinct
\* output names, and no input name is an output name
C10_NamesDoNotCollide ==
    \A o1, o2 \in Objs :
        (Named(o1) /\ Named(o2))
        => LET a1 == Last(hist[o1]).args
               a2 == Last(hist[o2]).args
           IN  /\ <<template[o1], a1[1]>> # <<template[o2], a2[1]>>
                  => input_channel[o1] # input_channel[o2]
               /\ <<template[o1], a1[2]>> # <<template[o2], a2[2]>>
                  => output_channel[o1] # output_channel[o2]
               /\ input_channel[o1] # output_channel[o2]

\* C10: templates "a" and "a_in_1" named with suffixes "1_11" and "11_1"
C10_Witness ==
    /\ Named("p") /\ Named("q")
    /\ template["p"] = <<"a">>
    /\ template["q"] = <<"a", "_", "i", "n", "_", "1">>
    /\ input_channel["p"] = <<"a", "_", "i", "n", "_", "1", "_", "1", "1">>
    /\ input_channel["q"] = <<"a", "_", "i", "n", "_", "1", "_", "i", "n", "_", "1", "1", "_", "1">>
    /\ output_channel["p"] = <<"a", "_", "o", "u", "t", "_", "1", "_", "1", "1">>

(***************************************************************************)
(* C11: the pid is computed by the first set_channels call only.  The      *)
(* first call sets it to "{lane}_{pid}"; every later set_channels call,    *)
(* whatever pid argument or lane it is given, leaves it as it was.         *)
(***************************************************************************)
\* the call the step made
ThisCall(o) == Last(hist'[o])

\* the pid argument of a set_channels call, None when it was left out
PidArg(call) ==
    IF "pid" \in DOMAIN call.args[1] THEN call.args[1]["pid"] ELSE None

\* the position "{lane}_{pid}" a set_channels call asks for under lane ln
PositionAsked(ln, call) == Fmt(ln) \o <<"_">> \o Fmt(PidArg(call))

\* C11: the first set_channels call sets pid to "{lane}_{pid}" and no later
\* set_channels call changes pid
C11_PidSetOnce ==
    [][Stepped("p", "set_channels")
       => IF NumCalls("p", "set_channels") = 0
          THEN pid'["p"] = PositionAsked(lane["p"], ThisCall("p"))
          ELSE pid'["p"] = pid["p"]]_vars

\* C11: a stage named in lane 1 and given pid 1, then named in lane 2 and given
\* pid 2, still has the pid "1_1"
C11_Witness ==
    /\ NumCalls("p", "set_channels") = 2
    /\ LastIs("p", "set_channels")
    /\ lane["p"] = PyInt(2)
    /\ PidArg(Last(hist["p"])) = PyInt(2)
    /\ pid["p"] = <<"1", "_", "1">>

(***************************************************************************)
(* C12: a set_channels call that asks for a position other than the one    *)
(* the stage already has is rejected with an error.                        *)
(***************************************************************************)
\* C12: a set_channels call on a stage that has a pid, asking for another
\* position, raises an error
C12_ConflictingPidRejected ==
    [][(/\ Stepped("p", "set_channels")
        /\ pid["p"] # None
        /\ PositionAsked(lane["p"], ThisCall("p")) # pid["p"])
       => ThisCall("p").raised # "none"]_vars

(***************************************************************************)
(* C13: after one or more set_channels calls the concrete status names are *)
(* the stems of status_channels, each suffixed with "_" and the pid, in    *)
(* stem order and one per stem.                                            *)
(***************************************************************************)
\* C13: once set_channels was called, status_strs holds one name per stem, the
\* stem followed by "_" and the pid
C13_OneStatusNamePerStem ==
    NumCalls("p", "set_channels") >= 1
    => status_strs["p"] =
           [i \in 1..Len(status_channels["p"]) |->
                status_channels["p"][i] \o <<"_">> \o pid["p"]]

(***************************************************************************)
(* C14: registering the parameter of a raw input type is idempotent.       *)
(* However often get_user_channel and set_raw_inputs registered a type,    *)
(* params holds the one entry of that type, with the default value and the *)
(* description of its RAW_MAPPING entry, and no entry of any other type.   *)
(***************************************************************************)
\* the items of a raw_input that set_raw_inputs reached before any unknown type
RECURSIVE TypesReached(_)
TypesReached(raw_input) ==
    IF raw_input = <<>> \/ raw_input[1][1] \notin DOMAIN RAW_MAPPING THEN {}
    ELSE {raw_input[1][1]} \cup TypesReached(Tail(raw_input))

\* the number of times the call registered the type t
Registrations(call, t) ==
    IF call.op = "get_user_channel" /\ call.args[2] = t THEN 1
    ELSE IF call.op = "set_raw_inputs" /\ t \in TypesReached(call.args[1]) THEN 1
    ELSE 0

RECURSIVE TimesRegistered(_, _)
TimesRegistered(calls, t) ==
    IF calls = <<>> THEN 0
    ELSE Registrations(calls[1], t) + TimesRegistered(Tail(calls), t)

\* C14: params holds an entry for exactly the raw types registered at least
\* once, and the entry is the default and description of RAW_MAPPING
C14_RegistrationIdempotent ==
    /\ \A t \in DOMAIN RAW_MAPPING :
           TimesRegistered(hist["p"], t) >= 1
           => /\ t \in DOMAIN params["p"]
              /\ params["p"][t] = [default |-> RAW_MAPPING[t].default_value,
                                   description |-> RAW_MAPPING[t].description]
    /\ \A k \in DOMAIN params["p"] :
           k \in DOMAIN RAW_MAPPING /\ TimesRegistered(hist["p"], k) >= 1

\* C14: fastq registered three times, by both methods, and one params entry
C14_Witness ==
    /\ TimesRegistered(hist["p"], RAW_fastq.params) = 3
    /\ NumCalls("p", "get_user_channel") >= 1
    /\ NumCalls("p", "set_raw_inputs") >= 1
    /\ DOMAIN params["p"] = {RAW_fastq.params}

(***************************************************************************)
(* C15 (as amended): set_raw_inputs and set_extra_inputs emit the sink     *)
(* list of each declaration as it was handed in, in its order and with its *)
(* duplicates, and emit the declarations in the order of the input.        *)
(***************************************************************************)
\* the last call on the object returned without raising
LastSucceeded(o, name) == LastIs(o, name) /\ Last(hist[o]).raised = "none"

\* the last n items of a list
LastItems(lst, n) == SubSeq(lst, Len(lst) - n + 1, Len(lst))

\* the declarations the last set_raw_inputs call appended
RawDecls(o) == LastItems(forks[o], Len(Last(hist[o]).args[1]))

\* declared(given, sinks) holds of every declaration the last call emitted,
\* the i-th declaration being that of the i-th item of the input
EmittedInInputOrder(declared(_, _)) ==
    /\ LastSucceeded("p", "set_raw_inputs")
       => LET items == Last(hist["p"]).args[1]
          IN  /\ Len(forks["p"]) >= Len(items)
              /\ \A i \in 1..Len(items) :
                     /\ DeclSource(RawDecls("p")[i]) = items[i][2].channel
                     /\ declared(items[i][2].raw_forks, DeclSinks(RawDecls("p")[i]))
    /\ LastSucceeded("p", "set_extra_inputs")
       => LET items == Last(hist["p"]).args[1]
          IN  /\ Len(ExtraDecls("p")) = Len(items)
              /\ \A i \in 1..Len(items) :
                     /\ StartsWith(DeclSource(ExtraDecls("p")[i]),
                                   <<"I", "N", "_">> \o items[i][1])
                     /\ declared(items[i][2].channels, DeclSinks(ExtraDecls("p")[i]))

\* C15: every declaration lists the sinks as given, declarations in input order
C15_SinksAsGiven == EmittedInInputOrder(LAMBDA given, sinks : sinks = given)

\* C15: every declaration lists the sinks deduplicated and sorted, declarations
\* in input order
C15_SinksCanonical ==
    EmittedInInputOrder(LAMBDA given, sinks : sinks = SortedList(Range(given)))

\* C15: set_raw_inputs given fastq with the sinks b, a and then fasta
C15_Witness ==
    /\ LastSucceeded("p", "set_raw_inputs")
    /\ Len(Last(hist["p"]).args[1]) = 2
    /\ Last(hist["p"]).args[1][1][2].raw_forks = << <<"b">>, <<"a">> >>
    /\ DeclSinks(RawDecls("p")[1]) = << <<"b">>, <<"a">> >>
    /\ DeclSource(RawDecls("p")[2]) = RAW_fasta.channel

(***************************************************************************)
(* C16: set_extra_inputs gives every parameter its own channel             *)
(* "IN_{param}_extraInput" and registers it under the key param, not under *)
(* the name of its input type: two parameters of one type have two         *)
(* channels and two params entries, and the type's own key is not added.   *)
(***************************************************************************)
\* the parameters of a channel_dict that set_extra_inputs reached before any
\* unknown type
RECURSIVE ParamsReached(_)
ParamsReached(channel_dict) ==
    IF channel_dict = <<>> \/ channel_dict[1][2].input_type \notin DOMAIN RAW_MAPPING
    THEN {}
    ELSE {channel_dict[1][1]} \cup ParamsReached(Tail(channel_dict))

\* the params keys the calls made registered
RECURSIVE KeysRegistered(_)
KeysRegistered(calls) ==
    IF calls = <<>> THEN {}
    ELSE KeysRegistered(Tail(calls)) \cup
         (IF calls[1].op = "set_raw_inputs" THEN TypesReached(calls[1].args[1])
          ELSE IF calls[1].op = "set_extra_inputs" THEN ParamsReached(calls[1].args[1])
          ELSE {})

\* the channel name the claim gives the parameter
ExtraInputName(param) ==
    <<"I", "N", "_">> \o param \o <<"_", "e", "x", "t", "r", "a", "I", "n", "p", "u", "t">>

\* the lines set_extra_inputs joined
ExtraLines(o) == Split(context[o]["extra_inputs"], "\n")

\* C16: params has the keys registered and no other; after set_extra_inputs
\* every parameter has its entry under its own name and its own channel, which
\* the construction line assigns and the declaration forks
C16_OwnChannelPerParam ==
    /\ DOMAIN params["p"] = KeysRegistered(hist["p"])
    /\ LastSucceeded("p", "set_extra_inputs")
       => LET items == Last(hist["p"]).args[1]
          IN  /\ Len(ExtraLines("p")) = 2 * Len(items)
              /\ \A i \in 1..Len(items) :
                     LET param == items[i][1]
                         raw   == RAW_MAPPING[items[i][2].input_type]
                     IN  /\ params["p"][param] =
                                [default |-> raw.default_value,
                                 description |-> raw.description]
                         /\ StartsWith(ExtraLines("p")[2 * i - 1],
                                       ExtraInputName(param) \o <<" ", "=", " ">>)
                         /\ DeclSource(ExtraLines("p")[2 * i]) = ExtraInputName(param)
              /\ \A i, j \in 1..Len(items) :
                     i # j => DeclSource(ExtraLines("p")[2 * i])
                                  # DeclSource(ExtraLines("p")[2 * j])

\* C16: the parameters x and y, both of type fasta, registered by one call on an
\* object that has no fasta entry
C16_Witness ==
    /\ LastSucceeded("p", "set_extra_inputs")
    /\ Len(Last(hist["p"]).args[1]) = 2
    /\ \A i \in 1..2 : Last(hist["p"]).args[1][i][2].input_type = RAW_fasta.params
    /\ DOMAIN params["p"] = {<<"x">>, <<"y">>}
    /\ DeclSource(ExtraLines("p")[2]) = ExtraInputName(<<"x">>)
    /\ DeclSource(ExtraLines("p")[4]) = ExtraInputName(<<"y">>)

(***************************************************************************)
(* C17: update_main_forks on a stage whose output channel was never        *)
(* assigned is rejected with an error and changes nothing.                 *)
(***************************************************************************)
\* C17: an update_main_forks call that finds output_channel None raises an error
\* and leaves output_channel, main_forks and forks as they were
C17_UnassignedOutputRejected ==
    [][(Stepped("p", "update_main_forks") /\ output_channel["p"] = None)
       => /\ ThisCall("p").raised # "none"
          /\ output_channel'["p"] = output_channel["p"]
          /\ main_forks'["p"] = main_forks["p"]
          /\ forks'["p"] = forks["p"]]_vars

(***************************************************************************)
(* C19: the output channel is prefixed at most once.  On a stage named     *)
(* with the output channel X and then given n >= 1 update_main_forks       *)
(* calls, output_channel is "_X", main_forks is X followed by the n sinks, *)
(* and forks holds one main declaration, from "_X" into all of main_forks. *)
(***************************************************************************)
\* the index of the last set_main_channel_names call, 0 if there is none
LastNaming(o) ==
    IF NumCalls(o, "set_main_channel_names") = 0 THEN 0
    ELSE CHOOSE k \in 1..Len(hist[o]) :
             /\ hist[o][k].op = "set_main_channel_names"
             /\ \A j \in (k + 1)..Len(hist[o]) : hist[o][j].op # "set_main_channel_names"

\* the stage was named, and update_main_forks was called only after its last
\* naming, at least once
ForkedSinceNamed(o) ==
    /\ LastNaming(o) > 0
    /\ NumCalls(o, "update_main_forks") >= 1
    /\ \A j \in 1..LastNaming(o) : hist[o][j].op # "update_main_forks"

\* the output channel X the naming assigned: "{template}_out_{output_suffix}"
AssignedOutput(o) ==
    template[o] \o <<"_", "o", "u", "t", "_">> \o hist[o][LastNaming(o)].args[2]

\* the declarations of forks whose source is the channel src
DeclsFrom(f, src) == SelectSeq(f, LAMBDA d : DeclSource(d) = src)

\* C19: after n >= 1 update_main_forks calls on a stage named with output X
C19_PrefixedOnce ==
    ForkedSinceNamed("p")
    => LET X == AssignedOutput("p")
           n == NumCalls("p", "update_main_forks")
       IN  /\ output_channel["p"] = <<"_">> \o X
           /\ Len(main_forks["p"]) = n + 1
           /\ main_forks["p"][1] = X
           /\ Tail(main_forks["p"]) = SinksAdded("p")
           /\ Len(DeclsFrom(forks["p"], <<"_">> \o X)) = 1
           /\ DeclsFrom(forks["p"], X) = <<>>
           /\ DeclSinks(DeclsFrom(forks["p"], <<"_">> \o X)[1]) = main_forks["p"]

\* C19: three update_main_forks calls on a stage named in lane 1
C19_Witness ==
    /\ ForkedSinceNamed("p")
    /\ NumCalls("p", "update_main_forks") = 3
    /\ output_channel["p"] = <<"_", "m", "l", "s", "t", "_", "o", "u", "t", "_", "1", "_", "2">>
    /\ Len(main_forks["p"]) = 4

(***************************************************************************)
(* C20: the rendered context stays in step with the stage.  After          *)
(* set_main_channel_names, then set_channels, then any update_main_input,  *)
(* update_main_forks and set_secondary_channel calls, the context holds    *)
(* the stage's input channel, its output channel and the newline-join of   *)
(* its forks.                                                              *)
(***************************************************************************)
\* the calls made are a naming, set_channels, and then wiring calls only
NamedSetThenWired(o) ==
    /\ Len(hist[o]) >= 2
    /\ hist[o][1].op = "set_main_channel_names"
    /\ hist[o][2].op = "set_channels"
    /\ \A i \in 3..Len(hist[o]) :
           hist[o][i].op \in {"update_main_input", "update_main_forks",
                              "set_secondary_channel"}

\* C20: the context agrees with input_channel, output_channel and forks
C20_ContextInStep ==
    NamedSetThenWired("p")
    => /\ context["p"]["input_channel"] = input_channel["p"]
       /\ context["p"]["output_channel"] = output_channel["p"]
       /\ context["p"]["forks"] = Join(<<"\n">>, forks["p"])

\* C20: a stage named, set, forked and given a secondary channel: two
\* declarations, and the output channel renamed since set_channels
C20_Witness ==
    /\ NamedSetThenWired("p")
    /\ Len(hist["p"]) = 4
    /\ hist["p"][3].op = "update_main_forks"
    /\ hist["p"][4].op = "set_secondary_channel"
    /\ Len(forks["p"]) = 2
    /\ context["p"]["output_channel"][1] = "_"

(***************************************************************************)
(* C18: the engine is deterministic.  Two objects constructed alike and    *)
(* given the same calls with the same arguments have the same forks, the   *)
(* same channel names and the same context, whatever order the sets built  *)
(* on the way were iterated in.                                            *)
(***************************************************************************)
\* the same calls, with the same arguments, were made on both objects
SameCalls(o1, o2) ==
    /\ Len(hist[o1]) = Len(hist[o2])
    /\ \A i \in 1..Len(hist[o1]) :
           /\ hist[o1][i].op = hist[o2][i].op
           /\ hist[o1][i].args = hist[o2][i].args

\* C18: the same calls leave two objects with the same forks, channel names,
\* context and outcome of every call
C18_SameCallsSameResult ==
    SameCalls("p", "q")
    => /\ forks["p"] = forks["q"]
       /\ main_forks["p"] = main_forks["q"]
       /\ input_channel["p"] = input_channel["q"]
       /\ output_channel["p"] = output_channel["q"]
       /\ pid["p"] = pid["q"]
       /\ status_strs["p"] = status_strs["q"]
       /\ params["p"] = params["q"]
       /\ context["p"] = context["q"]
       /\ \A i \in 1..Len(hist["p"]) : hist["p"][i].raised = hist["q"][i].raised

\* C18: two stages each given set_channels and then a secondary channel with
\* the sinks b, a
C18_Witness ==
    /\ SameCalls("p", "q")
    /\ Len(hist["p"]) = 2
    /\ hist["p"][1].op = "set_channels"
    /\ hist["p"][2].op = "set_secondary_channel"
    /\ hist["p"][2].args[2] = << <<"b">>, <<"a">> >>
    /\ DeclSinks(forks["q"][1]) = << <<"a">>, <<"b">> >>

(***************************************************************************)
(* C21: template_str refuses to render a stage whose channels were not set *)
(* up.  Reading it on a stage set_channels was never called on raises      *)
(* ProcessError, whatever update_main_input, update_main_forks and         *)
(* set_secondary_channel calls were made before.                           *)
(***************************************************************************)
\* C21: template_str read before any set_channels call raises ProcessError
C21_UnsetStageNotRendered ==
    [][(Stepped("p", "template_str") /\ NumCalls("p", "set_channels") = 0)
       => ThisCall("p").raised = "ProcessError"]_vars
====
